---- MODULE Spec2Model ----
(***************************************************************************)
(* Model of mnist-logistic-regression-classifier.ipynb: load_data, the     *)
(* LogisticRegression classifier, the mini-batch training loop of          *)
(* msgd_optimization_mnist with its early-stopping patience, the pickled   *)
(* best model and predict.                                                 *)
(*                                                                         *)
(* Numbers.  A float is a record [k, n]: k = "fin" with an integer n,      *)
(* k = "inf" (numpy.inf) or k = "nan".  A validation loss is a mean of     *)
(* per-batch error ratios; within one run all of them share the            *)
(* denominator n_validate_batches * batch_size, so n holds the numerator   *)
(* (the number of misclassified validation rows).  test_score likewise     *)
(* holds a numerator over n_test_batches * batch_size.  Arithmetic on      *)
(* them is exact (no rounding).                                            *)
(*                                                                         *)
(* Data.  The rows of the dataset are not modelled; what depends on them   *)
(* (the gradient of a batch, the number of misclassified rows) is an       *)
(* input: the gradient is a fixed function of the batch index, the error   *)
(* counts are drawn from small sets at each evaluation.                    *)
(***************************************************************************)
EXTENDS Integers, Sequences, FiniteSets, TLC

\* ------------------------------------------------------------------ bounds
\* largest n_epochs of the enumerated runs
MaxEpochs == 3
\* classifier dimensions of the enumerated runs (the notebook uses 784 x 10)
NIn == 2
NOut == 2
\* rows of an input batch handed to predict
MaxPredictRows == 1
\* exponent range of the floating point exp: exp(d) underflows to 0 below -ExpBits
ExpBits == 6

\* ------------------------------------------------------ program constants
patience_init == 5000
patience_mult == 2
\* improvement_thresh = 0.995 as the ratio thresh_num / thresh_den
thresh_num == 995
thresh_den == 1000
default_n_epochs == 1000
default_batch_size == 600

\* ------------------------------------------------------------ float values
Fin(n) == [k |-> "fin", n |-> n]
Inf == [k |-> "inf", n |-> 0]
NaN == [k |-> "nan", n |-> 0]

\* variant: a <= b
FloatLtLe(a, b) ==
    /\ a.k # "nan" /\ b.k # "nan"
    /\ \/ a.k = "fin" /\ b.k = "inf"
       \/ a.k = "fin" /\ b.k = "fin" /\ a.n <= b.n
\* a < b on floats: every comparison with nan is false
FloatLt(a, b) ==
    /\ a.k # "nan" /\ b.k # "nan"
    /\ \/ a.k = "fin" /\ b.k = "inf"
       \/ a.k = "fin" /\ b.k = "fin" /\ a.n < b.n

\* a < improvement_thresh * b  (0.995 * inf = inf, 0.995 * nan = nan)
\* variant: any improvement counts as significant
BelowThreshLoose(a, b) == FloatLt(a, b)
BelowThresh(a, b) ==
    /\ a.k # "nan" /\ b.k # "nan"
    /\ \/ a.k = "fin" /\ b.k = "inf"
       \/ a.k = "fin" /\ b.k = "fin" /\ a.n * thresh_den < thresh_num * b.n

Max(a, b) == IF a >= b THEN a ELSE b
Min(a, b) == IF a <= b THEN a ELSE b

\* numpy.mean of the per-batch error ratios of n_batches batches whose error
\* counts add up to total: nan for the empty list
MeanErrors(total, n_batches) == IF n_batches = 0 THEN NaN ELSE Fin(total)

\* 1. - mean, over the same denominator den
OneMinus(x, den) == IF x.k = "fin" THEN Fin(den - x.n) ELSE x

\* ------------------------------------------------------------- load_data
\* A path is the sequence of its components; os.path.split gives the
\* directory part (all but the last component) and the file name.
PathSplit(path) == [data_dir |-> SubSeq(path, 1, Len(path) - 1),
                    data_file |-> path[Len(path)]]

\* the test of load_data that raises ValueError('Incorrect dataset path', ...)
IncorrectPath(path, files) ==
    PathSplit(path).data_dir = <<>> /\ path \notin files

\* ---------------------------------------------------- LogisticRegression
\* W: n_in x n_out zeros, b: n_out zeros
ZeroW == [i \in 1..NIn |-> [j \in 1..NOut |-> 0]]
ZeroB == [j \in 1..NOut |-> 0]

RECURSIVE SumTo(_, _)
SumTo(f, n) == IF n = 0 THEN 0 ELSE f[n] + SumTo(f, n - 1)

\* one row of T.dot(x, W) + b
Logits(row, Wm, bv) ==
    [j \in 1..NOut |-> SumTo([i \in 1..NIn |-> row[i] * Wm[i][j]], NIn) + bv[j]]

MaxOf(z) == CHOOSE m \in {z[j] : j \in 1..Len(z)} : \A j \in 1..Len(z) : z[j] <= m

RECURSIVE Pow2(_)
Pow2(n) == IF n = 0 THEN 1 ELSE 2 * Pow2(n - 1)

\* exp(d) for d <= 0 in units of 2^-ExpBits, base 2; 0 once it underflows
Exp(d) == IF -d > ExpBits THEN 0 ELSE Pow2(ExpBits + d)

\* T.nnet.softmax of one row: exp(z - max z) / sum; the result is the pair
\* of numerators and the common denominator
Softmax(z) ==
    LET e == [j \in 1..Len(z) |-> Exp(z[j] - MaxOf(z))]
    IN  [num |-> e, den |-> SumTo(e, Len(z))]

\* T.argmax: the 0-based index of the first largest entry
ArgMax(v) ==
    (CHOOSE j \in 1..Len(v) :
        /\ \A i \in 1..Len(v) : v[i] <= v[j]
        /\ \A i \in 1..(j - 1) : v[i] < v[j]) - 1

\* classifier.y_pred for a batch x
YPred(x, Wm, bv) ==
    [r \in 1..Len(x) |-> ArgMax(Softmax(Logits(x[r], Wm, bv)).num)]

\* gradient of the cost of training batch index, times the learning rate:
\* depends on the rows of the batch, here a fixed function of the index
grad_W(index) ==
    [i \in 1..NIn |-> [j \in 1..NOut |->
        IF i = 1 + (index % NIn) /\ j = 1 + ((index + 1) % NOut) THEN -1 ELSE 0]]
grad_b(index) ==
    [j \in 1..NOut |-> IF j = 1 + (index % NOut) THEN 1 ELSE 0]

\* updates: W - learning_rate * grad_W, b - learning_rate * grad_b
UpdatedW(Wm, lr, index) ==
    [i \in 1..NIn |-> [j \in 1..NOut |-> Wm[i][j] - lr * grad_W(index)[i][j]]]
UpdatedB(bv, lr, index) ==
    [j \in 1..NOut |-> bv[j] - lr * grad_b(index)[j]]

\* ------------------------------------------------------------------ pickle
\* pickle.dump(classifier): the shape, W row by row, then b
RECURSIVE Flatten(_)
Flatten(m) == IF m = <<>> THEN <<>> ELSE Head(m) \o Flatten(Tail(m))

Pickle(Wm, bv) == <<NIn, NOut>> \o Flatten(Wm) \o bv

\* variant: W read column by column
UnpickleByColumn(bytes) ==
    LET ni == bytes[1]
        no == bytes[2]
    IN  [W |-> [i \in 1..ni |-> [j \in 1..no |-> bytes[2 + (j - 1) * ni + i]]],
         b |-> [j \in 1..no |-> bytes[2 + ni * no + j]]]
\* pickle.load: the classifier rebuilt from the file
Unpickle(bytes) ==
    LET ni == bytes[1]
        no == bytes[2]
    IN  [W |-> [i \in 1..ni |-> [j \in 1..no |-> bytes[2 + (i - 1) * no + j]]],
         b |-> [j \in 1..no |-> bytes[2 + ni * no + j]]]

\* ----------------------------------------------------------------- batches
\* variant: a last, partial batch is counted
NBatchesCeil(size, bs) == (size + bs - 1) \div bs
\* size // batch_size
NBatches(size, bs) == size \div bs

\* the rows [lo, hi) of dataset[index * batch_size : (index + 1) * batch_size],
\* a Python slice: both ends are clipped to the number of rows
BatchSlice(size, index, bs) ==
    [lo |-> Min(index * bs, size), hi |-> Min((index + 1) * bs, size)]

\* ------------------------------------------------------- the training loop
\* validation_freq = min(n_train_batches, patience // 2)
\* variant: without the min
ValidationFreqNoMin(n) == patience_init \div 2
ValidationFreq(n) == Min(n, patience_init \div 2)

\* variant: twice the number of iterations instead of twice the index
PatienceUpdateFromCount(p, i) == Max(p, (i + 1) * patience_mult)
\* variant: without the multiplier
PatienceUpdateNoMult(p, i) == Max(p, i)
\* variant: without the max
PatienceUpdateNoMax(p, i) == i * patience_mult
\* patience = max(patience, iter_no * patience_mult)
PatienceUpdate(p, i) == Max(p, i * patience_mult)

\* ------------------------------------------------ the recorded reference run
\* The validation error of each epoch of the recorded run, in half rows out
\* of 9600 (16 validation batches of 600): 12.458333 % is 1196 rows.  The
\* printed figures are rounded to six decimals: epoch 62 prints the figure of
\* the best so far (epoch 59) and is reported as an improvement, so its
\* unrounded mean was lower; it is one half row lower here.
RecordedValidation ==
    << 2392, 2114, 1980, 1896, 1836, 1790, 1764, 1726, 1716, 1680,
       1664, 1648, 1630, 1618, 1604, 1594, 1584, 1580, 1586, 1586,
       1576, 1572, 1566, 1558, 1554, 1556, 1556, 1546, 1546, 1542,
       1538, 1532, 1526, 1512, 1514, 1506, 1498, 1500, 1500, 1502,
       1496, 1492, 1488, 1486, 1486, 1486, 1486, 1480, 1474, 1474,
       1474, 1470, 1470, 1466, 1466, 1466, 1460, 1456, 1454, 1454,
       1456, 1453, 1452, 1454, 1452, 1450, 1450, 1446, 1446, 1442,
       1444, 1442, 1440 >>

\* the rows the recorded run's best models got right on the test set, of
\* 9600 (the starred lines: 87.625000 % is 8412 rows); 0 where no line
RecordedTest ==
    << 8412, 8548, 8610, 8656, 8690, 8708, 8736, 8740, 8754, 8768,
       8782, 8792, 8804, 8805, 8806, 8809, 8815, 8826, 0, 0,
       8837, 8839, 8836, 8837, 8837, 0, 0, 8847, 0, 8847,
       8848, 8850, 8857, 8858, 0, 8861, 8867, 0, 0, 0,
       8868, 8869, 8871, 8871, 0, 0, 0, 8872, 8873, 0,
       0, 8876, 0, 8878, 0, 0, 8881, 8884, 8883, 0,
       0, 8878, 8879, 0, 0, 8878, 0, 8878, 0, 8880,
       0, 0, 8881 >>

\* ------------------------------------------------------------------ inputs
\* DATASET and a bare file name
DATASET == <<"E:", "ml", "datasets", "mnist.pkl.gz">>
BareName == <<"mnist.pkl.gz">>

\* rows of the train, validate and test split
StandardShape == <<50000, 10000, 10000>>
LargeShape == <<50000, 410, 25>>
SmallShape == <<7, 5, 3>>

Run(path, files, shape, bs, ne, lr, orc) ==
    [dataset |-> path, files |-> files, shape |-> shape, batch_size |-> bs,
     n_epochs |-> ne, learning_rate |-> lr, oracle |-> orc]

Runs ==
    \* no file at the path
    {Run(p, {}, SmallShape, 2, 1, 1, "free") : p \in {DATASET, BareName}}
    \cup
    \* a few rows: 3/2/1, 1/1/0, 1/0/0 and 0/0/0 batches
    {Run(p, {p}, SmallShape, bs, ne, lr, "free") :
        p \in {DATASET, BareName}, bs \in {2, 4, 6, 8},
        ne \in 0..MaxEpochs, lr \in {0, 1}}
    \cup
    \* the standard split with the default batch size: 83/16/16 batches
    {Run(DATASET, {DATASET}, StandardShape, default_batch_size, ne, 1, "free") :
        ne \in 0..MaxEpochs}
    \cup
    \* 2500/20/1 and 5555/45/2 batches: runs that reach the patience bound
    {Run(DATASET, {DATASET}, LargeShape, bs, MaxEpochs, 1, "free") : bs \in {20, 9}}
    \cup
    \* the recorded run: msgd_optimization_mnist(dataset=DATASET)
    {Run(DATASET, {DATASET}, StandardShape, default_batch_size,
         default_n_epochs, 1, "recorded")}

\* numbers of misclassified rows an evaluation over den rows can report
LossChoices(den) == IF den < 400 THEN {0, 1} ELSE {25, 100, 399, 400}
TestChoices(den) == {0, 1}

\* the input batches handed to predict: the rows are the blank image and the
\* images of one lit pixel
PredictRows ==
    {[i \in 1..NIn |-> 0]} \cup {[i \in 1..NIn |-> IF i = p THEN 1 ELSE 0] : p \in 1..NIn}
PredictInputs == UNION {[1..n -> PredictRows] : n \in 1..MaxPredictRows}

\* ------------------------------------------------------------------- state
VARIABLES
    \* inputs: the arguments of msgd_optimization_mnist and the disk
    dataset, files, shape, batch_size, n_epochs, learning_rate, oracle,
    \* control: the statement about to run, the exception raised ("" if none)
    pc, error,
    \* locals of msgd_optimization_mnist
    n_train_batches, n_validate_batches, n_test_batches,
    W, b,
    patience, validation_freq, best_validation_loss, test_score,
    done_looping, epoch, minibatch_index, iter_no,
    \* the file SAVED_MODEL (<<>>: no file), and predict's argument and result
    saved_model, predict_x, prediction,
    \* history: whether gzip.open was called, the number of train_model calls,
    \* the rows read by the last step, the steps of the current iteration,
    \* the last validation loss, the lowest validation loss observed with the
    \* parameters at its first checkpoint, the parameters at the last dump, the
    \* epochs of the last checkpoint and of the last improvement (0: none)
    opened, steps, reads, iter_events, validation_loss, lowest, dumped,
    checkpoint_epoch, improved_epoch,
    \* the lines printed by the last step, and what the last step's checkpoint
    \* started from and measured (both empty outside a checkpoint)
    printed, measured

inputs == <<dataset, files, shape, batch_size, n_epochs, learning_rate, oracle>>
counts == <<n_train_batches, n_validate_batches, n_test_batches>>
params == <<W, b>>
early == <<patience, validation_freq, best_validation_loss, test_score>>
loopv == <<done_looping, epoch, minibatch_index, iter_no>>
pred == <<predict_x, prediction>>
hist == <<opened, steps, reads, iter_events, validation_loss, lowest, dumped,
          checkpoint_epoch, improved_epoch>>
out == <<printed, measured>>
vars == <<inputs, pc, error, counts, params, early, loopv, saved_model, pred,
          hist, out>>

\* value * 100., over the same denominator
Percent(x) == IF x.k = "fin" THEN Fin(100 * x.n) ELSE x

\* 'epoch %i, minibatch %i/%i, validation error %f %%'
ValidationLine(e, m, n, v) ==
    [line |-> "validation error", epoch |-> e, minibatch |-> m + 1, of |-> n,
     percent |-> Percent(v)]
\* ' * epoch %i, minibatch %i/%i, test error of best model %f %%'
TestLine(e, m, n, score) ==
    [line |-> "test error of best model", epoch |-> e, minibatch |-> m + 1,
     of |-> n, percent |-> Percent(score)]

\* no checkpoint in the last step
NoCheckpoint ==
    [due |-> FALSE, best_before |-> NaN, tested |-> FALSE, test_loss |-> NaN]

InitOf(runs) ==
    /\ \E r \in runs :
        /\ dataset = r.dataset
        /\ files = r.files
        /\ shape = r.shape
        /\ batch_size = r.batch_size
        /\ n_epochs = r.n_epochs
        /\ learning_rate = r.learning_rate
        /\ oracle = r.oracle
    /\ pc = "load_data"
    /\ error = ""
    /\ n_train_batches = 0 /\ n_validate_batches = 0 /\ n_test_batches = 0
    /\ W = ZeroW /\ b = ZeroB
    /\ patience = patience_init
    /\ validation_freq = 0
    /\ best_validation_loss = Inf
    /\ test_score = Fin(0)
    /\ done_looping = FALSE
    /\ epoch = 0 /\ minibatch_index = 0 /\ iter_no = 0
    /\ saved_model = <<>>
    /\ predict_x = <<>> /\ prediction = <<>>
    /\ opened = FALSE
    /\ steps = 0
    /\ reads = {}
    /\ iter_events = <<>>
    /\ validation_loss = NaN
    /\ lowest = [seen |-> FALSE, loss |-> 0, W |-> ZeroW, b |-> ZeroB]
    /\ dumped = [W |-> ZeroW, b |-> ZeroB]
    /\ checkpoint_epoch = 0 /\ improved_epoch = 0
    /\ printed = <<>>
    /\ measured = NoCheckpoint

Init == InitOf(Runs)

\* ----------------------------------------------------------------- actions
\* load_data(dataset), the first statement of msgd_optimization_mnist
LoadData ==
    /\ UNCHANGED out
    /\ pc = "load_data"
    /\ \/ /\ IncorrectPath(dataset, files)
          /\ error' = "ValueError"
          /\ pc' = "raised"
          /\ UNCHANGED opened
       \/ \* gzip.open on a path that is no file
          /\ ~IncorrectPath(dataset, files)
          /\ dataset \notin files
          /\ opened' = TRUE
          /\ error' = "FileNotFoundError"
          /\ pc' = "raised"
       \/ /\ ~IncorrectPath(dataset, files)
          /\ dataset \in files
          /\ opened' = TRUE
          /\ pc' = "build"
          /\ UNCHANGED error
    /\ UNCHANGED <<inputs, counts, params, early, loopv, saved_model, pred,
                   steps, reads, iter_events, validation_loss, lowest, dumped,
                   checkpoint_epoch, improved_epoch>>

\* the batch counts, the classifier and the initial training state
BuildModel ==
    /\ UNCHANGED out
    /\ pc = "build"
    /\ n_train_batches' = NBatches(shape[1], batch_size)
    /\ n_validate_batches' = NBatches(shape[2], batch_size)
    /\ n_test_batches' = NBatches(shape[3], batch_size)
    /\ W' = ZeroW
    /\ b' = ZeroB
    /\ patience' = patience_init
    /\ validation_freq' = ValidationFreq(NBatches(shape[1], batch_size))
    /\ best_validation_loss' = Inf
    /\ test_score' = Fin(0)
    /\ done_looping' = FALSE
    /\ epoch' = 0
    /\ pc' = "while"
    /\ UNCHANGED <<inputs, error, minibatch_index, iter_no, saved_model, pred, hist>>

\* variant: epoch <= n_epochs
LoopConditionInclusive(e, ne, dl) == e <= ne /\ ~dl
\* while (epoch < n_epochs) and (not done_looping)
LoopCondition(e, ne, dl) == e < ne /\ ~dl

WhileTest ==
    /\ UNCHANGED out
    /\ pc = "while"
    /\ \/ /\ LoopCondition(epoch, n_epochs, done_looping)
          /\ epoch' = epoch + 1
          /\ minibatch_index' = 0
          /\ pc' = "for"
       \/ /\ ~LoopCondition(epoch, n_epochs, done_looping)
          /\ pc' = "done"
          /\ UNCHANGED <<epoch, minibatch_index>>
    /\ reads' = {}
    /\ UNCHANGED <<inputs, error, counts, params, early, done_looping, iter_no,
                   saved_model, pred, opened, steps, iter_events,
                   validation_loss, lowest, dumped, checkpoint_epoch,
                   improved_epoch>>

\* iter_no = (epoch - 1) * n_train_batches + minibatch_index
IterNo(e, n, m) == (e - 1) * n + m

TrainReads(index) ==
    {[split |-> "train", index |-> index,
      rows |-> BatchSlice(shape[1], index, batch_size)]}
ValidateReads ==
    {[split |-> "validate", index |-> i,
      rows |-> BatchSlice(shape[2], i, batch_size)] : i \in 0..(n_validate_batches - 1)}
TestReads ==
    {[split |-> "test", index |-> i,
      rows |-> BatchSlice(shape[3], i, batch_size)] : i \in 0..(n_test_batches - 1)}

\* for minibatch_index in range(n_train_batches): train_model(minibatch_index)
TrainStep ==
    /\ UNCHANGED out
    /\ pc = "for"
    /\ minibatch_index < n_train_batches
    /\ W' = UpdatedW(W, learning_rate, minibatch_index)
    /\ b' = UpdatedB(b, learning_rate, minibatch_index)
    /\ iter_no' = IterNo(epoch, n_train_batches, minibatch_index)
    /\ steps' = steps + 1
    /\ reads' = TrainReads(minibatch_index)
    /\ iter_events' = <<"train">>
    /\ pc' = "validate"
    /\ UNCHANGED <<inputs, error, counts, early, done_looping, epoch,
                   minibatch_index, saved_model, pred, opened,
                   validation_loss, lowest, dumped, checkpoint_epoch,
                   improved_epoch>>

\* the range is exhausted: back to the while test
ForExhausted ==
    /\ UNCHANGED out
    /\ pc = "for"
    /\ minibatch_index >= n_train_batches
    /\ pc' = "while"
    /\ reads' = {}
    /\ UNCHANGED <<inputs, error, counts, params, early, loopv, saved_model,
                   pred, opened, steps, iter_events, validation_loss, lowest,
                   dumped, checkpoint_epoch, improved_epoch>>

\* variant: iter_no % validation_freq == 0
ValidationDueOffByOne(i, vf) == i % vf = 0
\* if (iter_no + 1) % validation_freq == 0
ValidationDue(i, vf) == (i + 1) % vf = 0

\* the 1-based number of the checkpoint at iteration i
CheckpointNo(i, vf) == (i + 1) \div vf

\* the error counts validate_model and test_model can add up to
ValidationErrors ==
    IF oracle = "recorded"
    THEN {RecordedValidation[Min(CheckpointNo(iter_no, validation_freq),
                                 Len(RecordedValidation))]}
    ELSE IF n_validate_batches = 0 THEN {0}
    ELSE LossChoices(n_validate_batches * batch_size)
TestErrors ==
    IF oracle = "recorded"
    THEN {n_test_batches * batch_size
          - RecordedTest[Min(CheckpointNo(iter_no, validation_freq),
                             Len(RecordedTest))]}
    ELSE IF n_test_batches = 0 THEN {0}
    ELSE TestChoices(n_test_batches * batch_size)

\* variant: validation_loss <= best_validation_loss
ImprovedOrEqual(v, best) == FloatLtLe(v, best)
\* if validation_loss < best_validation_loss
Improved(v, best) == FloatLt(v, best)

\* if validation_loss < improvement_thresh * best_validation_loss
Significant(v, best) == BelowThresh(v, best)

\* the lowest validation loss observed, with the parameters at the first
\* checkpoint that observed it
Observe(low, v, Wm, bv) ==
    IF v.k = "fin" /\ (~low.seen \/ v.n < low.loss)
    THEN [seen |-> TRUE, loss |-> v.n, W |-> Wm, b |-> bv]
    ELSE low

\* the validation checkpoint, or nothing when none is due
Validate ==
    /\ pc = "validate"
    /\ \/ /\ ValidationDue(iter_no, validation_freq)
          /\ \E ve \in ValidationErrors, te \in TestErrors :
              LET v == MeanErrors(ve, n_validate_batches) IN
              /\ validation_loss' = v
              /\ lowest' = Observe(lowest, v, W, b)
              /\ \/ /\ Improved(v, best_validation_loss)
                    /\ patience' =
                         IF Significant(v, best_validation_loss)
                         THEN PatienceUpdate(patience, iter_no)
                         ELSE patience
                    /\ best_validation_loss' = v
                    /\ test_score' =
                         OneMinus(MeanErrors(te, n_test_batches),
                                  n_test_batches * batch_size)
                    /\ saved_model' = Pickle(W, b)
                    /\ dumped' = [W |-> W, b |-> b]
                    /\ improved_epoch' = epoch
                    /\ reads' = ValidateReads \cup TestReads
                    /\ printed' =
                         << ValidationLine(epoch, minibatch_index, n_train_batches, v),
                            TestLine(epoch, minibatch_index, n_train_batches,
                                     test_score') >>
                    /\ measured' =
                         [due |-> TRUE, best_before |-> best_validation_loss,
                          tested |-> TRUE,
                          test_loss |-> MeanErrors(te, n_test_batches)]
                 \/ /\ ~Improved(v, best_validation_loss)
                    /\ reads' = ValidateReads
                    /\ printed' =
                         << ValidationLine(epoch, minibatch_index, n_train_batches, v) >>
                    /\ measured' =
                         [due |-> TRUE, best_before |-> best_validation_loss,
                          tested |-> FALSE, test_loss |-> NaN]
                    /\ UNCHANGED <<patience, best_validation_loss, test_score,
                                   saved_model, dumped, improved_epoch>>
          /\ iter_events' = Append(iter_events, "validate")
          /\ checkpoint_epoch' = epoch
       \/ /\ ~ValidationDue(iter_no, validation_freq)
          /\ reads' = {}
          /\ UNCHANGED out
          /\ UNCHANGED <<patience, best_validation_loss, test_score, saved_model,
                         dumped, iter_events, validation_loss, lowest,
                         checkpoint_epoch, improved_epoch>>
    /\ pc' = "early_exit"
    /\ UNCHANGED <<inputs, error, counts, params, validation_freq, loopv, pred,
                   opened, steps>>

\* if iter_no >= patience: done_looping = True; break
\* variant: the test fires one iteration late
EarlyExitTestLate(i, p) == i > p
EarlyExitTest(i, p) == i >= p

EarlyExit ==
    /\ pc = "early_exit"
    /\ \/ /\ EarlyExitTest(iter_no, patience)
          /\ done_looping' = TRUE
          /\ pc' = "while"
          /\ UNCHANGED minibatch_index
       \/ /\ ~EarlyExitTest(iter_no, patience)
          /\ minibatch_index' = minibatch_index + 1
          /\ pc' = "for"
          /\ UNCHANGED done_looping
    /\ iter_events' = Append(iter_events, "exit_test")
    /\ reads' = {}
    /\ printed' = <<>>
    /\ measured' = NoCheckpoint
    /\ UNCHANGED <<inputs, error, counts, params, early, epoch, iter_no,
                   saved_model, pred, opened, steps, validation_loss, lowest,
                   dumped, checkpoint_epoch, improved_epoch>>

\* predict(SAVED_MODEL, x), after the training cell
Predict ==
    /\ UNCHANGED out
    /\ pc \in {"done", "predicted"}
    /\ \E x \in PredictInputs :
        \/ /\ saved_model = <<>>
           /\ error' = "FileNotFoundError"
           /\ pc' = "raised"
           /\ UNCHANGED pred
        \/ /\ saved_model # <<>>
           /\ predict_x' = x
           /\ prediction' = YPred(x, Unpickle(saved_model).W, Unpickle(saved_model).b)
           /\ pc' = "predicted"
           /\ UNCHANGED error
    /\ UNCHANGED <<inputs, counts, params, early, loopv, saved_model, hist>>

Next ==
    \/ LoadData
    \/ BuildModel
    \/ WhileTest
    \/ TrainStep
    \/ ForExhausted
    \/ Validate
    \/ EarlyExit
    \/ Predict

Spec == Init /\ [][Next]_vars

\* a statement of msgd_optimization_mnist
Training ==
    \/ LoadData
    \/ BuildModel
    \/ WhileTest
    \/ TrainStep
    \/ ForExhausted
    \/ Validate
    \/ EarlyExit

\* Once called, msgd_optimization_mnist runs its next statement: none is
\* postponed forever.  Whether predict is called afterwards is up to the caller.
FairSpec == InitOf(Runs) /\ [][Next]_vars /\ WF_vars(Training)

\* ================================================================== claims

\* C1: patience never decreases: no step lowers it (a validation checkpoint
\* is the only step that changes it), and it is never below its initial
\* value 5000.
C1_PatienceNeverDecreases ==
    [][patience' >= patience /\ patience' >= 5000]_vars

\* a checkpoint has raised patience above its initial value
C1_Witness ==
    /\ pc = "early_exit"
    /\ iter_events = <<"train", "validate">>
    /\ patience > 5000

\* C2 (as claimed): when the loop has ended, the number of train_model calls
\* is at most the value of patience.
C2_StepsWithinPatience ==
    pc = "done" => steps <= patience

\* C4: whenever a validation error has been observed, the persisted model
\* holds the parameters of the first checkpoint that observed the lowest
\* validation error so far and best_validation_loss is that error; while
\* none has been observed (no checkpoint yet, or no validation batch, whose
\* mean is nan) there is no persisted model and best_validation_loss is inf.
C4_BestModelPersisted ==
    IF lowest.seen
    THEN /\ saved_model # <<>>
         /\ Unpickle(saved_model).W = lowest.W
         /\ Unpickle(saved_model).b = lowest.b
         /\ best_validation_loss = Fin(lowest.loss)
    ELSE /\ saved_model = <<>>
         /\ best_validation_loss = Inf

\* a later checkpoint ties with the lowest validation error: the parameters
\* have moved on, the persisted model is still the earlier one
C4_Witness ==
    /\ pc = "early_exit"
    /\ iter_events = <<"train", "validate">>
    /\ lowest.seen
    /\ validation_loss = Fin(lowest.loss)
    /\ W # lowest.W

\* C5 (as claimed): load_data on a path that is no file raises ValueError
\* and has opened nothing.
C5_MissingPathValueError ==
    (pc # "load_data" /\ dataset \notin files) =>
        (error = "ValueError" /\ ~opened)

\* C7: each batch count is floor(split size / batch_size), every batch read
\* by a training, validation or test step is exactly the rows
\* [index * batch_size, (index + 1) * batch_size), and no row at or beyond
\* n_batches * batch_size is read.
C7_SplitSize(split) ==
    IF split = "train" THEN shape[1] ELSE IF split = "validate" THEN shape[2] ELSE shape[3]
C7_SplitBatches(split) ==
    IF split = "train" THEN n_train_batches
    ELSE IF split = "validate" THEN n_validate_batches ELSE n_test_batches
C3_LoopTerminates ==
    (pc = "while") ~>
        (pc = "done" /\ epoch <= n_epochs /\ steps <= n_epochs * n_train_batches)

\* the loop has stopped after the last epoch, every batch of every epoch trained
C3_Witness ==
    /\ pc = "done"
    /\ ~done_looping
    /\ epoch = n_epochs
    /\ steps = n_epochs * n_train_batches
    /\ steps > 0

\* C6: predict returns, for every row of the batch, the first class with the
\* largest x.W + b under the parameters as they were when the model was
\* dumped, and a predict call leaves the persisted model as it was.
C6_Score(row, Wm, bv, c) ==
    SumTo([i \in 1..NIn |-> row[i] * Wm[i][c]], NIn) + bv[c]
C6_Forward(x, Wm, bv) ==
    [r \in 1..Len(x) |->
        (CHOOSE c \in 1..NOut :
            /\ \A o \in 1..NOut : C6_Score(x[r], Wm, bv, o) <= C6_Score(x[r], Wm, bv, c)
            /\ \A o \in 1..(c - 1) : C6_Score(x[r], Wm, bv, o) < C6_Score(x[r], Wm, bv, c))
        - 1]
C8_ReferenceRun ==
    (oracle = "recorded" /\ pc = "done") =>
        /\ done_looping
        /\ epoch = 74
        /\ checkpoint_epoch = 73
        /\ improved_epoch = 73
        /\ best_validation_loss.k = "fin"
        /\ best_validation_loss.n * 1000 = 75 * (2 * n_validate_batches * batch_size)

\* the recorded run has ended
C8_Witness ==
    /\ oracle = "recorded"
    /\ pc = "done"
    /\ batch_size = 600
    /\ n_train_batches = 83
    /\ n_epochs = 1000

\* C9: the check frequency is min(n_train_batches, 5000 // 2); an iteration
\* runs its training step, then the validation checkpoint, then the
\* early-exit test, and the checkpoint is run exactly at the iterations whose
\* 0-based global index plus 1 (the number of training steps so far) is a
\* multiple of the check frequency.
C9_ValidationSchedule ==
    /\ pc \notin {"load_data", "build", "raised"} =>
        /\ validation_freq <= n_train_batches
        /\ validation_freq <= 2500
        /\ validation_freq \in {n_train_batches, 2500}
    /\ pc = "validate" => iter_events = <<"train">>
    /\ pc = "early_exit" =>
        /\ iter_no = steps - 1
        /\ iter_events \in {<<"train">>, <<"train", "validate">>}
        /\ (iter_events = <<"train", "validate">>) <=> (steps % validation_freq = 0)
    /\ (pc = "for" /\ steps > 0) =>
        iter_events \in {<<"train", "exit_test">>, <<"train", "validate", "exit_test">>}

\* a checkpoint in the middle of an epoch, at a multiple of patience // 2
C9_Witness ==
    /\ pc = "early_exit"
    /\ iter_events = <<"train", "validate">>
    /\ validation_freq = 2500
    /\ n_train_batches > 2500
    /\ steps = 5000

\* C10: at a validation checkpoint at iteration i with validation error v and
\* previous best b: if v < 0.995 * b then patience becomes max(patience, 2 * i),
\* otherwise patience is unchanged; if v < b but not v < 0.995 * b the best
\* value becomes v.
C10_Below(v, best, num, den) ==
    /\ v.k = "fin"
    /\ \/ best.k = "inf"
       \/ best.k = "fin" /\ v.n * den < num * best.n
C10_PatienceRule ==
    [][(pc = "validate" /\ iter_events' = <<"train", "validate">>) =>
        LET v == validation_loss'
            significant == C10_Below(v, best_validation_loss, 995, 1000)
            better == C10_Below(v, best_validation_loss, 1, 1)
        IN  /\ significant =>
                patience' = IF patience >= 2 * (steps - 1) THEN patience ELSE 2 * (steps - 1)
            /\ ~significant => patience' = patience
            /\ (better /\ ~significant) =>
                (best_validation_loss' = v /\ patience' = patience)
    ]_vars

\* an improvement within the 0.5 % margin, at an iteration whose double
\* exceeds patience: the best value and the persisted model are new, patience
\* is not extended
C10_Witness ==
    /\ pc = "early_exit"
    /\ iter_events = <<"train", "validate">>
    /\ best_validation_loss = validation_loss
    /\ best_validation_loss = Fin(399)
    /\ dumped.W = W
    /\ learning_rate = 1
    /\ 2 * iter_no > patience

\* ---------------------------------------------------------------------------
\* C11: every validation checkpoint prints one line with the epoch, the
\* 1-based minibatch, the number of training batches and 100 times the
\* validation error; a checkpoint that improves on the best value prints in
\* addition the test error of the best model, 100 times the mean of the
\* test batches' misclassification fractions; a checkpoint that does not
\* improve prints no test figure.
C11_ValidationReported ==
    measured.due =>
        /\ Len(printed) >= 1
        /\ printed[1] = ValidationLine(epoch, minibatch_index, n_train_batches,
                                       validation_loss)
C11_ProgressReport ==
    /\ C11_ValidationReported
    /\ (measured.due /\ FloatLt(validation_loss, measured.best_before)) =>
          /\ Len(printed) = 2
          /\ printed[2].line = "test error of best model"
          /\ printed[2].epoch = epoch
          /\ printed[2].minibatch = minibatch_index + 1
          /\ printed[2].percent = Percent(measured.test_loss)
    /\ (measured.due /\ ~FloatLt(validation_loss, measured.best_before)) =>
          Len(printed) = 1

\* what the code does print at an improving checkpoint: 100 * test_score,
\* test_score being 1 - the mean of the test batches' error fractions
C11_PrintsTestScore ==
    /\ (measured.due /\ FloatLt(validation_loss, measured.best_before)) =>
          /\ Len(printed) = 2
          /\ measured.tested
          /\ printed[2] = TestLine(epoch, minibatch_index, n_train_batches,
                                   OneMinus(measured.test_loss,
                                            n_test_batches * batch_size))
    /\ (measured.due /\ ~FloatLt(validation_loss, measured.best_before)) =>
          Len(printed) = 1 /\ ~measured.tested

\* ---------------------------------------------------------------------------
\* C12: a validation checkpoint whose validation error is not strictly below
\* best_validation_loss leaves best_validation_loss, patience, test_score
\* and the pickled model file unchanged; and W and b are changed by
\* training steps only, never by a validation or test evaluation.
C12_NonImprovingStep ==
    /\ pc = "validate"
    /\ measured'.due
    /\ ~FloatLt(validation_loss', best_validation_loss)
C12_NonImprovingFrame ==
    [][ /\ C12_NonImprovingStep =>
             UNCHANGED <<best_validation_loss, patience, test_score, saved_model>>
        /\ (pc = "validate" /\ measured'.due) => UNCHANGED <<W, b>>
        /\ (W' # W \/ b' # b) => (pc = "for" /\ steps' = steps + 1)
      ]_vars
\* a checkpoint that did not improve, reached with parameters that have
\* moved on from the saved ones and a validation error above the best
C12_Witness ==
    /\ pc = "early_exit"
    /\ measured.due /\ ~measured.tested
    /\ validation_loss.k = "fin" /\ best_validation_loss.k = "fin"
    /\ validation_loss.n > best_validation_loss.n
    /\ saved_model # <<>>
    /\ Unpickle(saved_model).W # W

C14_SignificantAt ==
    /\ pc = "early_exit"
    /\ measured.due
    /\ iter_no >= 1
    /\ validation_loss.k = "fin"
    /\ \/ measured.best_before.k = "inf"
       \/ /\ measured.best_before.k = "fin"
          /\ validation_loss.n * thresh_den < thresh_num * measured.best_before.n
C14_UpdateBeforeExit ==
    /\ [](C14_SignificantAt =>
            /\ iter_events = <<"train", "validate">>
            /\ patience >= 2 * iter_no
            /\ patience > iter_no
            /\ ~EarlyExitTest(iter_no, patience))
    /\ [][C14_SignificantAt => (~done_looping' /\ pc' = "for")]_vars
\* a significant improvement at an iteration that the initial patience would
\* have stopped
C14_Witness ==
    /\ C14_SignificantAt
    /\ measured.best_before.k = "fin"
    /\ iter_no >= patience_init
    /\ patience = 2 * iter_no

\* ---------------------------------------------------------------------------
\* C15: in a run with n_epochs >= 1, at least one training batch and at least
\* one validation batch, a validation checkpoint occurs before the loop ends
\* (by the epoch limit or by the early exit), the first checkpoint, taken
\* against the initial best value of infinity, counts as an improvement, and
\* so the model has been pickled by the time the loop ends.
C15_NonTrivial ==
    n_epochs >= 1 /\ n_train_batches >= 1 /\ n_validate_batches >= 1
C15_SavedModelExists ==
    /\ [] ((pc = "done" /\ C15_NonTrivial) =>
             /\ checkpoint_epoch >= 1
             /\ improved_epoch >= 1
             /\ lowest.seen
             /\ saved_model # <<>>)
    /\ [] ((C15_NonTrivial /\ measured.due /\ measured.best_before.k = "inf") =>
             /\ validation_loss.k = "fin"
             /\ measured.tested
             /\ best_validation_loss = validation_loss
             /\ saved_model = Pickle(W, b))
    /\ [][ (C15_NonTrivial /\ pc = "validate" /\ epoch = 1
            /\ iter_no = validation_freq - 1) => measured'.due ]_vars
\* a one-epoch run that ended at the epoch limit with its model pickled
C15_Witness ==
    /\ pc = "done"
    /\ C15_NonTrivial
    /\ n_epochs = 1
    /\ ~done_looping
    /\ checkpoint_epoch = 1
    /\ saved_model = Pickle(dumped.W, dumped.b)

====
